---- MODULE Spec2Model ----
(***************************************************************************)
(* Model of the libhal-stm-imu LIS3DHTR accelerometer drivers:             *)
(*   lis3dhtr_spi  (src/src/lis3dhtr_spi.cpp, lines 25-245)                *)
(*   lis3dhtr_i2c  (src/tests/lis3dhtr_i2c.test.cpp, lines 63-200)         *)
(* Every public operation is one action that runs the whole handler,       *)
(* HAL_CHECK early returns included.  The device is a small register file  *)
(* that answers the framed bus transactions the drivers issue.             *)
(***************************************************************************)
EXTENDS Integers, Sequences, FiniteSets

VARIABLES bus, dev, cs, m_gscale, controller, configured, last

vars == <<bus, dev, cs, m_gscale, controller, configured, last>>

----------------------------------------------------------------------------
(* Bounds of the model                                                     *)

\* index of the last initial register byte pattern tried
MaxInit == 1
\* index of the last raw axis word the device may present to a read
MaxRaw == 5

----------------------------------------------------------------------------
(* Register map: lis3dhtr_constants.hpp                                    *)

who_am_i_register == 15
ctrl_reg1 == 32
ctrl_reg4 == 35
ctrl_reg5 == 36
read_xyz_axis == 168
out_x_l == 40

\* lis3dhtr_i2c::low_address, the default p_device_address of create
low_address == 24

\* the identity the data sheet gives (constexpr auto expected = 0x33)
expected == 51

number_of_axis == 3
bytes_per_axis == 2

\* std::numeric_limits<int16_t>::max() / min()
int16_max == 32767
int16_min == 0 - 32768

\* enum class max_acceleration : g2 = 0, g4 = 1, g8 = 2, g16 = 3
max_acceleration == 0 .. 3
\* enum class data_rate_config : mode_0 = 0b0000 .. mode_9 = 0b1001
data_rate_config == 0 .. 9
mode_0 == 0
mode_7 == 7
mode_8 == 8
\* enum class spi_mode : four_wire = 0, three_wire = 1
four_wire == 0
three_wire == 1

Byte == 0 .. 255

----------------------------------------------------------------------------
(* hal::bit_mask, hal::bit_value, hal::bit_modify as the drivers use them  *)

Pow2(n) == 2 ^ n

\* hal::bit_mask::from<p1, p2>() : the field between the two bit positions
bit_mask_from(p1, p2) ==
  [position |-> IF p1 < p2 THEN p1 ELSE p2,
   width    |-> (IF p1 < p2 THEN p2 - p1 ELSE p1 - p2) + 1]

\* .insert<mask>(value): clear the field, then or in the value shifted to the
\* field position and cut to the field width
bit_insert(word, mask, value) ==
  LET lo    == Pow2(mask.position)
      hi    == Pow2(mask.position + mask.width)
  IN  ((word \div hi) * hi) + ((value % Pow2(mask.width)) * lo) + (word % lo)

\* .set<mask>(): every bit of the field becomes 1
bit_set(word, mask) == bit_insert(word, mask, Pow2(mask.width) - 1)

\* value of the field of a word
bit_extract(word, mask) == (word \div Pow2(mask.position)) % Pow2(mask.width)

\* .to<hal::byte>() and .to<uint16_t>()
to_byte(word) == word % 256
to_uint16(word) == word % 65536

\* static_cast<int16_t>(uint16_t): two's complement reinterpretation
to_int16(word) == IF word >= 32768 THEN word - 65536 ELSE word

spi_read_bit_mask == bit_mask_from(7, 7)
spi_addr_inc_bit_mask == bit_mask_from(6, 6)
addr_bit_mask == bit_mask_from(5, 0)

----------------------------------------------------------------------------
(* The device on the other side of the bus                                 *)

\* registers the model keeps: identity, the two control registers the
\* drivers write, and their neighbour ctrl_reg5
RegAddrs == {who_am_i_register, ctrl_reg1, ctrl_reg4, ctrl_reg5}

\* byte the device returns for register address a; the output registers
\* 0x28..0x2D hold the six raw axis bytes
DevRead(d, raw, a) ==
  IF a \in RegAddrs THEN d[a]
  ELSE IF a >= out_x_l /\ a < out_x_l + 6 THEN raw[a - out_x_l + 1]
  ELSE 0

\* n reply bytes starting at register a, the pointer moving on only when
\* auto-increment was requested
DevBurst(d, raw, a, inc, n) ==
  [i \in 1 .. n |-> DevRead(d, raw, IF inc THEN a + (i - 1) ELSE a)]

\* a data byte stored at register a (the identity register is read-only)
DevWrite(d, a, b) ==
  IF a \in RegAddrs \ {who_am_i_register} THEN [d EXCEPT ![a] = b] ELSE d

----------------------------------------------------------------------------
(* Transport and chip-select calls, each wrapped in HAL_CHECK              *)
(* A context c carries the handler's view: device, select line, stored     *)
(* range, the status so far, and the trace of calls made.  Once the status *)
(* is not "ok" the handler has returned, so later calls do nothing.        *)

Event(kind, level, addr, out, n, ok) ==
  [kind |-> kind, level |-> level, addr |-> addr, out |-> out, n |-> n,
   ok |-> ok]

\* does the call about to be made fail?
Fails(c) == c.calls + 1 = c.failAt

\* HAL_CHECK(m_cs->level(p_level)); a failed level change may or may not have
\* moved the line
cs_level(c, p_level) ==
  IF c.status # "ok" THEN c
  ELSE IF Fails(c)
  THEN [c EXCEPT !.calls = @ + 1, !.status = "transport",
                 !.cs = IF c.took THEN p_level ELSE @,
                 !.trace = Append(@, Event("cs", p_level, 0, <<>>, 0, FALSE))]
  ELSE [c EXCEPT !.calls = @ + 1, !.cs = p_level,
                 !.trace = Append(@, Event("cs", p_level, 0, <<>>, 0, TRUE))]

\* HAL_CHECK(hal::write_then_read<n>(*m_spi, frame)): the first frame byte
\* carries read flag (bit 7), auto-increment flag (bit 6), address (5:0)
spi_write_then_read(c, frame, n) ==
  IF c.status # "ok" THEN c
  ELSE IF Fails(c)
  THEN [c EXCEPT !.calls = @ + 1, !.status = "transport",
                 !.trace = Append(@, Event("spi_wtr", c.cs, 0, frame, n, FALSE))]
  ELSE [c EXCEPT !.calls = @ + 1,
                 !.rd = IF bit_extract(frame[1], spi_read_bit_mask) = 1
                        THEN DevBurst(c.dev, c.raw,
                                      bit_extract(frame[1], addr_bit_mask),
                                      bit_extract(frame[1], spi_addr_inc_bit_mask) = 1,
                                      n)
                        ELSE [i \in 1 .. n |-> 0],
                 !.trace = Append(@, Event("spi_wtr", c.cs, 0, frame, n, TRUE))]

\* HAL_CHECK(hal::write(*m_spi, frame)) with frame = {first byte, data}
spi_write(c, frame) ==
  IF c.status # "ok" THEN c
  ELSE IF Fails(c)
  THEN [c EXCEPT !.calls = @ + 1, !.status = "transport",
                 !.trace = Append(@, Event("spi_w", c.cs, 0, frame, 0, FALSE))]
  ELSE [c EXCEPT !.calls = @ + 1,
                 !.dev = IF bit_extract(frame[1], spi_read_bit_mask) = 0
                         THEN DevWrite(@, bit_extract(frame[1], addr_bit_mask),
                                       frame[2])
                         ELSE @,
                 !.trace = Append(@, Event("spi_w", c.cs, 0, frame, 0, TRUE))]

\* HAL_CHECK(hal::write_then_read<n>(*m_i2c, m_address, frame,
\* never_timeout())): the register byte's low 7 bits are the sub-address,
\* its top bit asks for auto-increment
i2c_write_then_read(c, frame, n) ==
  IF c.status # "ok" THEN c
  ELSE IF Fails(c)
  THEN [c EXCEPT !.calls = @ + 1, !.status = "transport",
                 !.trace = Append(@, Event("i2c_wtr", TRUE, low_address, frame, n, FALSE))]
  ELSE [c EXCEPT !.calls = @ + 1,
                 !.rd = DevBurst(c.dev, c.raw, frame[1] % 128,
                                 frame[1] \div 128 = 1, n),
                 !.trace = Append(@, Event("i2c_wtr", TRUE, low_address, frame, n, TRUE))]

\* HAL_CHECK(hal::write(*m_i2c, m_address, frame, never_timeout()))
i2c_write(c, frame) ==
  IF c.status # "ok" THEN c
  ELSE IF Fails(c)
  THEN [c EXCEPT !.calls = @ + 1, !.status = "transport",
                 !.trace = Append(@, Event("i2c_w", TRUE, low_address, frame, 0, FALSE))]
  ELSE [c EXCEPT !.calls = @ + 1,
                 !.dev = DevWrite(@, frame[1] % 128, frame[2]),
                 !.trace = Append(@, Event("i2c_w", TRUE, low_address, frame, 0, TRUE))]

----------------------------------------------------------------------------
(* hal::map(value, input_range, output_range) as driver_read calls it      *)

Min2(a, b) == IF a < b THEN a ELSE b
Max2(a, b) == IF a < b THEN b ELSE a

\* Linear map of p_target from the input range onto the output range; each
\* range is taken as (smaller end, larger end) whichever way round it was
\* passed, and the result is clamped to the output range.  The result is the
\* exact fraction num / den (the driver computes it in single precision).
map(p_target, p_input_range, p_output_range) ==
  LET a == Min2(p_input_range[1], p_input_range[2])
      b == Max2(p_input_range[1], p_input_range[2])
      c == Min2(p_output_range[1], p_output_range[2])
      d == Max2(p_output_range[1], p_output_range[2])
      y == ((p_target - a) * (d - c)) + (c * (b - a))
  IN  [num |-> Max2(c * (b - a), Min2(d * (b - a), y)), den |-> b - a]

----------------------------------------------------------------------------
(* lis3dhtr_spi                                                            *)
\* mutant of spi_verify_device: the identity byte is never compared
spi_verify_device_any_identity(c) ==
  IF c.status # "ok" THEN c
  ELSE
  LET read_from_who_am_i ==
        to_byte(bit_set(bit_insert(0, addr_bit_mask, who_am_i_register),
                        spi_read_bit_mask))
      c1 == cs_level(c, FALSE)
      c2 == spi_write_then_read(c1, <<read_from_who_am_i>>, 1)
      c3 == cs_level(c2, TRUE)
  IN  c3

spi_verify_device(c) ==
  IF c.status # "ok" THEN c
  ELSE
  LET read_from_who_am_i ==
        to_byte(bit_set(bit_insert(0, addr_bit_mask, who_am_i_register),
                        spi_read_bit_mask))
      c1 == cs_level(c, FALSE)
      c2 == spi_write_then_read(c1, <<read_from_who_am_i>>, 1)
      c3 == cs_level(c2, TRUE)
  IN  IF c3.status # "ok" THEN c3
      ELSE IF c3.rd[1] # expected THEN [c3 EXCEPT !.status = "mismatch"]
      ELSE c3
\* mutant of spi_configure_data_rates: the byte written is built from the
\* data rate alone instead of from the byte read
spi_configure_data_rates_overwrite(c, p_data_rate) ==
  IF c.status # "ok" THEN c
  ELSE
  LET configure_reg_bit_mask == bit_mask_from(7, 4)
      read_from_ctrl_reg1 ==
        to_byte(bit_set(bit_insert(0, addr_bit_mask, ctrl_reg1),
                        spi_read_bit_mask))
      write_to_ctrl_reg1 ==
        to_byte(bit_set(bit_insert(0, addr_bit_mask, ctrl_reg1),
                        spi_addr_inc_bit_mask))
      c1 == cs_level(c, FALSE)
      c2 == spi_write_then_read(c1, <<read_from_ctrl_reg1>>, 1)
      c3 == cs_level(c2, TRUE)
      ctrl_reg1_data ==
        to_byte(bit_insert(0, configure_reg_bit_mask, p_data_rate))
      c4 == cs_level(c3, FALSE)
      c5 == spi_write(c4, <<write_to_ctrl_reg1, ctrl_reg1_data>>)
      c6 == cs_level(c5, TRUE)
  IN  c6

spi_configure_data_rates(c, p_data_rate) ==
  IF c.status # "ok" THEN c
  ELSE
  LET configure_reg_bit_mask == bit_mask_from(7, 4)
      read_from_ctrl_reg1 ==
        to_byte(bit_set(bit_insert(0, addr_bit_mask, ctrl_reg1),
                        spi_read_bit_mask))
      write_to_ctrl_reg1 ==
        to_byte(bit_set(bit_insert(0, addr_bit_mask, ctrl_reg1),
                        spi_addr_inc_bit_mask))
      c1 == cs_level(c, FALSE)
      c2 == spi_write_then_read(c1, <<read_from_ctrl_reg1>>, 1)
      c3 == cs_level(c2, TRUE)
      ctrl_reg1_data ==
        IF c3.status = "ok"
        THEN to_byte(bit_insert(c3.rd[1], configure_reg_bit_mask, p_data_rate))
        ELSE 0
      c4 == cs_level(c3, FALSE)
      c5 == spi_write(c4, <<write_to_ctrl_reg1, ctrl_reg1_data>>)
      c6 == cs_level(c5, TRUE)
  IN  c6
\* mutant of spi_power_on: the mode is mode_8
spi_power_on_mode_8(c) == spi_configure_data_rates(c, mode_8)

spi_power_on(c) == spi_configure_data_rates(c, mode_7)

spi_power_off(c) == spi_configure_data_rates(c, mode_0)
\* mutant of spi_configure_full_scale: the register is updated but the range
\* is not stored in m_gscale
spi_configure_full_scale_no_store(c, p_gravity_code) ==
  IF c.status # "ok" THEN c
  ELSE
  LET configure_reg_bit_mask == bit_mask_from(5, 4)
      read_from_ctrl_reg4 ==
        to_byte(bit_set(bit_insert(0, addr_bit_mask, ctrl_reg4),
                        spi_read_bit_mask))
      write_to_ctrl_reg4 ==
        to_byte(bit_set(bit_insert(0, addr_bit_mask, ctrl_reg4),
                        spi_addr_inc_bit_mask))
      c1 == cs_level(c, FALSE)
      c2 == spi_write_then_read(c1, <<read_from_ctrl_reg4>>, 1)
      c3 == cs_level(c2, TRUE)
      ctrl_reg4_data ==
        IF c3.status = "ok"
        THEN to_byte(bit_insert(c3.rd[1], configure_reg_bit_mask,
                                p_gravity_code))
        ELSE 0
      c4 == cs_level(c3, FALSE)
      c5 == spi_write(c4, <<write_to_ctrl_reg4, ctrl_reg4_data>>)
      c6 == cs_level(c5, TRUE)
  IN  c6

spi_configure_full_scale(c, p_gravity_code) ==
  IF c.status # "ok" THEN c
  ELSE
  LET c0 == [c EXCEPT !.m_gscale = p_gravity_code]
      configure_reg_bit_mask == bit_mask_from(5, 4)
      read_from_ctrl_reg4 ==
        to_byte(bit_set(bit_insert(0, addr_bit_mask, ctrl_reg4),
                        spi_read_bit_mask))
      write_to_ctrl_reg4 ==
        to_byte(bit_set(bit_insert(0, addr_bit_mask, ctrl_reg4),
                        spi_addr_inc_bit_mask))
      c1 == cs_level(c0, FALSE)
      c2 == spi_write_then_read(c1, <<read_from_ctrl_reg4>>, 1)
      c3 == cs_level(c2, TRUE)
      ctrl_reg4_data ==
        IF c3.status = "ok"
        THEN to_byte(bit_insert(c3.rd[1], configure_reg_bit_mask,
                                p_gravity_code))
        ELSE 0
      c4 == cs_level(c3, FALSE)
      c5 == spi_write(c4, <<write_to_ctrl_reg4, ctrl_reg4_data>>)
      c6 == cs_level(c5, TRUE)
  IN  c6
\* mutant of spi_configure_spi_mode: the protocol bit is set, not inserted
spi_configure_spi_mode_sets_bit(c, p_spi_mode) ==
  IF c.status # "ok" THEN c
  ELSE
  LET configure_reg_bit_mask == bit_mask_from(0, 0)
      read_from_ctrl_reg4 ==
        to_byte(bit_insert(bit_set(0, spi_read_bit_mask), addr_bit_mask,
                           ctrl_reg4))
      write_to_ctrl_reg4 ==
        to_byte(bit_insert(bit_set(0, spi_addr_inc_bit_mask), addr_bit_mask,
                           ctrl_reg4))
      c1 == cs_level(c, FALSE)
      c2 == spi_write_then_read(c1, <<read_from_ctrl_reg4>>, 1)
      c3 == cs_level(c2, TRUE)
      ctrl_reg4_data ==
        IF c3.status = "ok"
        THEN to_byte(bit_set(c3.rd[1], configure_reg_bit_mask))
        ELSE 0
      c4 == cs_level(c3, FALSE)
      c5 == spi_write(c4, <<write_to_ctrl_reg4, ctrl_reg4_data>>)
      c6 == cs_level(c5, TRUE)
  IN  c6

spi_configure_spi_mode(c, p_spi_mode) ==
  IF c.status # "ok" THEN c
  ELSE
  LET configure_reg_bit_mask == bit_mask_from(0, 0)
      read_from_ctrl_reg4 ==
        to_byte(bit_insert(bit_set(0, spi_read_bit_mask), addr_bit_mask,
                           ctrl_reg4))
      write_to_ctrl_reg4 ==
        to_byte(bit_insert(bit_set(0, spi_addr_inc_bit_mask), addr_bit_mask,
                           ctrl_reg4))
      c1 == cs_level(c, FALSE)
      c2 == spi_write_then_read(c1, <<read_from_ctrl_reg4>>, 1)
      c3 == cs_level(c2, TRUE)
      ctrl_reg4_data ==
        IF c3.status = "ok"
        THEN to_byte(bit_insert(c3.rd[1], configure_reg_bit_mask, p_spi_mode))
        ELSE 0
      c4 == cs_level(c3, FALSE)
      c5 == spi_write(c4, <<write_to_ctrl_reg4, ctrl_reg4_data>>)
      c6 == cs_level(c5, TRUE)
  IN  c6
\* mutant of spi_create: a failed full-scale step is followed by power_off
\* before the failure is returned
spi_create_rollback(c, p_gscale) ==
  LET lis == [c EXCEPT !.m_gscale = p_gscale]
      c1  == spi_configure_spi_mode(lis, four_wire)
      c2  == spi_verify_device(c1)
      c3  == spi_power_on(c2)
      c4  == spi_configure_full_scale(c3, p_gscale)
  IN  IF c3.status = "ok" /\ c4.status # "ok"
      THEN [spi_power_off([c4 EXCEPT !.status = "ok"]) EXCEPT
              !.status = c4.status]
      ELSE c4
\* mutant of spi_create: the identity is verified before the protocol mode
\* is configured
spi_create_verify_first(c, p_gscale) ==
  LET lis == [c EXCEPT !.m_gscale = p_gscale]
      c1  == spi_verify_device(lis)
      c2  == spi_configure_spi_mode(c1, four_wire)
      c3  == spi_power_on(c2)
      c4  == spi_configure_full_scale(c3, p_gscale)
  IN  c4

\* the constructor stores p_gscale; create then runs the four steps
spi_create(c, p_gscale) ==
  LET lis == [c EXCEPT !.m_gscale = p_gscale]
      c1  == spi_configure_spi_mode(lis, four_wire)
      c2  == spi_verify_device(c1)
      c3  == spi_power_on(c2)
      c4  == spi_configure_full_scale(c3, p_gscale)
  IN  c4
\* mutant of spi_axis: the high byte is inserted at bits 7:0 as well
spi_axis_one_mask(xyz_acceleration, i) ==
  LET read_l_bit_mask == bit_mask_from(7, 0)
  IN  to_uint16(bit_insert(bit_insert(0, read_l_bit_mask,
                                      xyz_acceleration[(2 * i) - 1]),
                           read_l_bit_mask, xyz_acceleration[2 * i]))

\* the three axis words of the reply, low and high byte inserted into 0
spi_axis(xyz_acceleration, i) ==
  LET read_l_bit_mask == bit_mask_from(7, 0)
      read_h_bit_mask == bit_mask_from(15, 8)
  IN  to_uint16(bit_insert(bit_insert(0, read_l_bit_mask,
                                      xyz_acceleration[(2 * i) - 1]),
                           read_h_bit_mask, xyz_acceleration[2 * i]))
\* mutant of output_limits: the shift forgets the + 1
output_limits_no_plus_one(gscale) == Pow2(gscale)

\* output_limits = 1 << (m_gscale + 1)
output_limits(gscale) == Pow2(gscale + 1)

\* the calibrated sample: each axis word cast to int16_t and mapped from
\* (max, min) onto (-output_limits, output_limits)
calibrate(x, y, z, gscale) ==
  LET input_range  == <<int16_max, int16_min>>
      output_range == <<0 - output_limits(gscale), output_limits(gscale)>>
  IN  [x |-> map(to_int16(x), input_range, output_range),
       y |-> map(to_int16(y), input_range, output_range),
       z |-> map(to_int16(z), input_range, output_range)]
\* mutant of spi_driver_read: the frame byte lacks the auto-increment flag
spi_driver_read_no_increment(c) ==
  IF c.status # "ok" THEN c
  ELSE
  LET read_from_xyz_register ==
        to_byte(bit_set(bit_insert(0, addr_bit_mask, out_x_l),
                        spi_read_bit_mask))
      c1 == cs_level(c, FALSE)
      c2 == spi_write_then_read(c1, <<read_from_xyz_register>>,
                                number_of_axis * bytes_per_axis)
      c3 == cs_level(c2, TRUE)
  IN  IF c3.status # "ok" THEN c3
      ELSE [c3 EXCEPT !.words = [i \in 1 .. number_of_axis |->
                                   spi_axis(c3.rd, i)],
                      !.limit = output_limits(c3.m_gscale),
                      !.acceleration =
                         calibrate(spi_axis(c3.rd, 1), spi_axis(c3.rd, 2),
                                   spi_axis(c3.rd, 3), c3.m_gscale)]

spi_driver_read(c) ==
  IF c.status # "ok" THEN c
  ELSE
  LET read_from_xyz_register ==
        to_byte(bit_set(bit_set(bit_insert(0, addr_bit_mask, out_x_l),
                                spi_read_bit_mask),
                        spi_addr_inc_bit_mask))
      c1 == cs_level(c, FALSE)
      c2 == spi_write_then_read(c1, <<read_from_xyz_register>>,
                                number_of_axis * bytes_per_axis)
      c3 == cs_level(c2, TRUE)
  IN  IF c3.status # "ok" THEN c3
      ELSE [c3 EXCEPT !.words = [i \in 1 .. number_of_axis |->
                                   spi_axis(c3.rd, i)],
                      !.limit = output_limits(c3.m_gscale),
                      !.acceleration =
                         calibrate(spi_axis(c3.rd, 1), spi_axis(c3.rd, 2),
                                   spi_axis(c3.rd, 3), c3.m_gscale)]

----------------------------------------------------------------------------
(* lis3dhtr_i2c                                                            *)
\* mutant of i2c_verify_device: the register byte carries the read flag of
\* the chip-select bus
i2c_verify_device_read_flag(c) ==
  IF c.status # "ok" THEN c
  ELSE
  LET c1 == i2c_write_then_read(c, <<bit_set(who_am_i_register,
                                             spi_read_bit_mask)>>, 1)
  IN  IF c1.status # "ok" THEN c1
      ELSE IF c1.rd[1] # expected THEN [c1 EXCEPT !.status = "mismatch"]
      ELSE c1

i2c_verify_device(c) ==
  IF c.status # "ok" THEN c
  ELSE
  LET c1 == i2c_write_then_read(c, <<who_am_i_register>>, 1)
  IN  IF c1.status # "ok" THEN c1
      ELSE IF c1.rd[1] # expected THEN [c1 EXCEPT !.status = "mismatch"]
      ELSE c1
\* mutant of i2c_configure_data_rates: the argument is also stored in
\* m_gscale, as configure_full_scale does with its own
i2c_configure_data_rates_stores(c, p_data_rate) ==
  IF c.status # "ok" THEN c
  ELSE
  LET c0 == [c EXCEPT !.m_gscale = p_data_rate]
      configure_reg_bit_mask == bit_mask_from(7, 4)
      c1 == i2c_write_then_read(c0, <<ctrl_reg1>>, 1)
      ctrl_reg1_data ==
        IF c1.status = "ok"
        THEN to_byte(bit_insert(c1.rd[1], configure_reg_bit_mask, p_data_rate))
        ELSE 0
      c2 == i2c_write(c1, <<ctrl_reg1, ctrl_reg1_data>>)
  IN  c2

i2c_configure_data_rates(c, p_data_rate) ==
  IF c.status # "ok" THEN c
  ELSE
  LET configure_reg_bit_mask == bit_mask_from(7, 4)
      c1 == i2c_write_then_read(c, <<ctrl_reg1>>, 1)
      ctrl_reg1_data ==
        IF c1.status = "ok"
        THEN to_byte(bit_insert(c1.rd[1], configure_reg_bit_mask, p_data_rate))
        ELSE 0
      c2 == i2c_write(c1, <<ctrl_reg1, ctrl_reg1_data>>)
  IN  c2

i2c_power_on(c) == i2c_configure_data_rates(c, mode_7)
\* mutant of i2c_power_off: the mode is written a second time
i2c_power_off_twice(c) ==
  i2c_configure_data_rates(i2c_configure_data_rates(c, mode_0), mode_0)

i2c_power_off(c) == i2c_configure_data_rates(c, mode_0)
\* mutant of i2c_configure_full_scale: m_gscale is taken from the field of
\* the byte read back, the range the device had before the write
i2c_configure_full_scale_stores_read(c, p_gravity_code) ==
  IF c.status # "ok" THEN c
  ELSE
  LET configure_reg_bit_mask == bit_mask_from(5, 4)
      c1 == i2c_write_then_read(c, <<ctrl_reg4>>, 1)
      ctrl_reg4_data ==
        IF c1.status = "ok"
        THEN to_byte(bit_insert(c1.rd[1], configure_reg_bit_mask,
                                p_gravity_code))
        ELSE 0
      c2 == i2c_write(c1, <<ctrl_reg4, ctrl_reg4_data>>)
  IN  IF c1.status = "ok"
      THEN [c2 EXCEPT !.m_gscale = (c1.rd[1] \div 16) % 4]
      ELSE c2

i2c_configure_full_scale(c, p_gravity_code) ==
  IF c.status # "ok" THEN c
  ELSE
  LET c0 == [c EXCEPT !.m_gscale = p_gravity_code]
      configure_reg_bit_mask == bit_mask_from(5, 4)
      c1 == i2c_write_then_read(c0, <<ctrl_reg4>>, 1)
      ctrl_reg4_data ==
        IF c1.status = "ok"
        THEN to_byte(bit_insert(c1.rd[1], configure_reg_bit_mask,
                                p_gravity_code))
        ELSE 0
      c2 == i2c_write(c1, <<ctrl_reg4, ctrl_reg4_data>>)
  IN  c2
\* mutant of i2c_create: power-on runs before the identity is verified
i2c_create_power_first(c, p_gscale) ==
  LET lis == [c EXCEPT !.m_gscale = p_gscale]
      c1  == i2c_power_on(lis)
      c2  == i2c_verify_device(c1)
      c3  == i2c_configure_full_scale(c2, p_gscale)
  IN  c3

i2c_create(c, p_gscale) ==
  LET lis == [c EXCEPT !.m_gscale = p_gscale]
      c1  == i2c_verify_device(lis)
      c2  == i2c_power_on(c1)
      c3  == i2c_configure_full_scale(c2, p_gscale)
  IN  c3
\* mutant of i2c_axis: the two bytes of an axis are taken the other way round
i2c_axis_swapped(xyz_acceleration, i) ==
  LET read_h_bit_mask == bit_mask_from(15, 8)
  IN  to_uint16(bit_insert(xyz_acceleration[2 * i], read_h_bit_mask,
                           xyz_acceleration[(2 * i) - 1]))

\* the axis word starts as the low byte, the high byte is inserted at 15:8
i2c_axis(xyz_acceleration, i) ==
  LET read_h_bit_mask == bit_mask_from(15, 8)
  IN  to_uint16(bit_insert(xyz_acceleration[(2 * i) - 1], read_h_bit_mask,
                           xyz_acceleration[2 * i]))

i2c_driver_read(c) ==
  IF c.status # "ok" THEN c
  ELSE
  LET c1 == i2c_write_then_read(c, <<read_xyz_axis>>,
                                number_of_axis * bytes_per_axis)
  IN  IF c1.status # "ok" THEN c1
      ELSE [c1 EXCEPT !.words = [i \in 1 .. number_of_axis |->
                                   i2c_axis(c1.rd, i)],
                      !.limit = output_limits(c1.m_gscale),
                      !.acceleration =
                         calibrate(i2c_axis(c1.rd, 1), i2c_axis(c1.rd, 2),
                                   i2c_axis(c1.rd, 3), c1.m_gscale)]

----------------------------------------------------------------------------
(* Inputs                                                                  *)

\* register contents the device may hold before the driver first touches it
InitByte(i) == ((i * 165) + 90) % 256
InitRegs == {<<InitByte(i), InitByte(i + 1)>> : i \in 0 .. MaxInit}

\* identity bytes a device on the bus may answer with
IdBytes == {expected, expected - 1, 255}

\* raw 16-bit axis words: zero, both ends of the signed range, -1, half
\* scale, and words whose two bytes differ
RawTable == <<0, 32767, 32768, 65535, 16384, 4848>>
RawWord(i) == IF i + 1 <= Len(RawTable) THEN RawTable[i + 1]
              ELSE (i * 4657) % 65536

\* the six bytes at 0x28..0x2D for axis words x, y, z: low byte first
RawBytes(x, y, z) == <<x % 256, x \div 256, y % 256, y \div 256,
                       z % 256, z \div 256>>
RawReplies == {RawBytes(RawWord(i), RawWord((i + 1) % (MaxRaw + 1)),
                        RawWord((i + 2) % (MaxRaw + 1))) : i \in 0 .. MaxRaw}
NoRaw == <<0, 0, 0, 0, 0, 0>>

\* which call of a handler that makes up to n transport / chip-select calls
\* fails (at = 0: none), and whether a failed level change moved the line
FailChoices(n) ==
  {[at |-> 0, took |-> FALSE]} \cup [at : 1 .. n, took : BOOLEAN]

\* calls a handler makes when none fails: one transfer per bus transaction,
\* on the chip-select bus wrapped in two level changes
Calls(transactions) == IF bus = "spi" THEN 3 * transactions ELSE transactions

\* bus transactions of create: spi mode (chip-select bus only), identity,
\* power-on, full scale; a read-modify-write is two transactions
CreateTransactions == IF bus = "spi" THEN 2 + 1 + 2 + 2 ELSE 1 + 2 + 2

Fraction(n, d) == [num |-> n, den |-> d]
NoSample == [x |-> Fraction(0, 1), y |-> Fraction(0, 1), z |-> Fraction(0, 1)]

----------------------------------------------------------------------------------------------------------------------------------------
(* State machine                                                           *)
(* bus, dev, cs: the transport in use, the device registers, the select    *)
(* line (TRUE = high).  m_gscale, controller: the driver object and        *)
(* whether create handed one to the caller.  last: what the caller and the *)
(* bus saw of the operation that just returned, until the caller goes on.  *)
(* configured: the range a successful configure_full_scale just set and    *)
(* the range stored before it, until the next operation.                   *)

\* the context a handler starts in: failAt = 0 means no call fails
Ctx(f, raw) ==
  [dev |-> dev, cs |-> cs, m_gscale |-> m_gscale, status |-> "ok",
   calls |-> 0, failAt |-> f.at, took |-> f.took, trace |-> <<>>,
   rd |-> <<>>, raw |-> raw, words |-> <<0, 0, 0>>, limit |-> 0,
   acceleration |-> NoSample]

NotConfigured == [range |-> -1, prior |-> -1]

Record(op, arg, c) ==
  [op |-> op, arg |-> arg, status |-> c.status, trace |-> c.trace,
   pre_dev |-> dev, pre_gscale |-> m_gscale, pre_cs |-> cs, raw |-> c.raw,
   words |-> c.words, limit |-> c.limit, acceleration |-> c.acceleration,
   cfg |-> configured]

NoRecord ==
  [op |-> "none", arg |-> 0, status |-> "ok", trace |-> <<>>,
   pre_dev |-> [a \in RegAddrs |-> 0], pre_gscale |-> 0, pre_cs |-> TRUE,
   raw |-> NoRaw, words |-> <<0, 0, 0>>, limit |-> 0,
   acceleration |-> NoSample, cfg |-> NotConfigured]

Init ==
  /\ bus \in {"i2c", "spi"}
  /\ \E id \in IdBytes, r \in InitRegs :
        dev = [a \in RegAddrs |->
                 IF a = who_am_i_register THEN id
                 ELSE IF a = ctrl_reg1 THEN r[1]
                 ELSE IF a = ctrl_reg4 THEN r[2]
                 ELSE 0]
  /\ cs = TRUE
  /\ m_gscale = 0
  /\ controller = FALSE
  /\ configured = NotConfigured
  /\ last = NoRecord

\* the caller is not in a call and has dealt with the previous result
Idle == last.op = "none"

\* a member operation returned: the object keeps what the handler stored
Return(op, arg, c) ==
  /\ dev' = c.dev
  /\ cs' = c.cs
  /\ m_gscale' = c.m_gscale
  /\ configured' = IF op = "configure_full_scale" /\ c.status = "ok"
                   THEN [range |-> arg, prior |-> m_gscale]
                   ELSE NotConfigured
  /\ last' = Record(op, arg, c)
  /\ UNCHANGED <<bus, controller>>
\* mutant of Create: the object is handed out whatever create returned
Create_partial_object ==
  /\ Idle
  /\ ~controller
  /\ \E p_gscale \in max_acceleration, f \in FailChoices(Calls(CreateTransactions)) :
       LET c == IF bus = "spi" THEN spi_create(Ctx(f, NoRaw), p_gscale)
                ELSE i2c_create(Ctx(f, NoRaw), p_gscale)
       IN  /\ dev' = c.dev
           /\ cs' = c.cs
           /\ controller' = TRUE
           /\ m_gscale' = c.m_gscale
           /\ configured' = NotConfigured
           /\ last' = Record("create", p_gscale, c)
           /\ UNCHANGED bus

\* create: the object reaches the caller only if every HAL_CHECK passed
Create ==
  /\ Idle
  /\ ~controller
  /\ \E p_gscale \in max_acceleration, f \in FailChoices(Calls(CreateTransactions)) :
       LET c == IF bus = "spi" THEN spi_create(Ctx(f, NoRaw), p_gscale)
                ELSE i2c_create(Ctx(f, NoRaw), p_gscale)
       IN  /\ dev' = c.dev
           /\ cs' = c.cs
           /\ controller' = (c.status = "ok")
           /\ m_gscale' = IF c.status = "ok" THEN c.m_gscale ELSE m_gscale
           /\ configured' = NotConfigured
           /\ last' = Record("create", p_gscale, c)
           /\ UNCHANGED bus

VerifyDevice ==
  /\ Idle
  /\ controller
  /\ \E f \in FailChoices(Calls(1)) :
       Return("verify_device", 0,
              IF bus = "spi" THEN spi_verify_device(Ctx(f, NoRaw))
              ELSE i2c_verify_device(Ctx(f, NoRaw)))

PowerOn ==
  /\ Idle
  /\ controller
  /\ \E f \in FailChoices(Calls(2)) :
       Return("power_on", 0,
              IF bus = "spi" THEN spi_power_on(Ctx(f, NoRaw))
              ELSE i2c_power_on(Ctx(f, NoRaw)))

PowerOff ==
  /\ Idle
  /\ controller
  /\ \E f \in FailChoices(Calls(2)) :
       Return("power_off", 0,
              IF bus = "spi" THEN spi_power_off(Ctx(f, NoRaw))
              ELSE i2c_power_off(Ctx(f, NoRaw)))

ConfigureDataRates ==
  /\ Idle
  /\ controller
  /\ \E p_data_rate \in data_rate_config, f \in FailChoices(Calls(2)) :
       Return("configure_data_rates", p_data_rate,
              IF bus = "spi"
              THEN spi_configure_data_rates(Ctx(f, NoRaw), p_data_rate)
              ELSE i2c_configure_data_rates(Ctx(f, NoRaw), p_data_rate))

ConfigureFullScale ==
  /\ Idle
  /\ controller
  /\ \E p_gravity_code \in max_acceleration, f \in FailChoices(Calls(2)) :
       Return("configure_full_scale", p_gravity_code,
              IF bus = "spi"
              THEN spi_configure_full_scale(Ctx(f, NoRaw), p_gravity_code)
              ELSE i2c_configure_full_scale(Ctx(f, NoRaw), p_gravity_code))

\* hal::accelerometer::read() calls driver_read()
Read ==
  /\ Idle
  /\ controller
  /\ \E raw \in RawReplies, f \in FailChoices(Calls(1)) :
       Return("read", 0,
              IF bus = "spi" THEN spi_driver_read(Ctx(f, raw))
              ELSE i2c_driver_read(Ctx(f, raw)))

\* the caller has taken the result of the last operation and goes on; the
\* driver, the device and the select line stay as the operation left them
Resume ==
  /\ ~Idle
  /\ last' = NoRecord
  /\ UNCHANGED <<bus, dev, cs, m_gscale, controller, configured>>

Next ==
  \/ Create
  \/ VerifyDevice
  \/ PowerOn
  \/ PowerOff
  \/ ConfigureDataRates
  \/ ConfigureFullScale
  \/ Read
  \/ Resume

Spec == Init /\ [][Next]_vars

----------------------------------------------------------------------------
(* Reading the record of the operation that just returned                  *)

Returned(op) == last.op = op

ConfigOps == {"power_on", "power_off", "configure_data_rates",
              "configure_full_scale"}
MemberOps == ConfigOps \cup {"verify_device", "read"}

\* the bus transfers of a trace, chip-select level changes left out
IsTransfer(e) == e.kind # "cs"
Transfers(t) == SelectSeq(t, IsTransfer)

\* every call of the operation succeeded
AllCallsOk(t) == \A i \in 1 .. Len(t) : t[i].ok

\* register a transfer addresses: bits 5:0 of the first frame byte on the
\* chip-select bus, bits 6:0 of the register byte on the addressed bus
FrameRegister(e) ==
  IF e.kind \in {"spi_wtr", "spi_w"} THEN e.out[1] % 64 ELSE e.out[1] % 128

IsReadTransfer(e) == e.kind \in {"spi_wtr", "i2c_wtr"}
IsWriteTransfer(e) == e.kind \in {"spi_w", "i2c_w"}

\* bits hi..lo of a byte, and the byte with those bits cleared: two bytes
\* agree outside the field exactly when the latter agree
Field(b, hi, lo) == (b \div (2 ^ lo)) % (2 ^ ((hi - lo) + 1))
Outside(b, hi, lo) == b - (Field(b, hi, lo) * (2 ^ lo))

\* registers other than a keep their contents
OthersKept(a) == \A r \in RegAddrs \ {a} : dev[r] = last.pre_dev[r]

----------------------------------------------------------------------------
(* C1 *)

\* C1: on the chip-select bus, after every public operation has returned the
\* chip-select line is high, also when a transfer or level change failed.
C1_ChipSelectHighAfterOperation ==
  (bus = "spi" /\ ~Idle) => cs = TRUE

----------------------------------------------------------------------------
(* C2 *)

\* C2: a configure_full_scale that fails (register read or write-back
\* failed) leaves the stored range as it was before the call.
C2_RangeKeptOnFailure ==
  (Returned("configure_full_scale") /\ last.status # "ok")
    => m_gscale = last.pre_gscale

----------------------------------------------------------------------------
(* C3 *)

\* position in the transfers of t of the successful read of the identity
\* register 0x0F (0: no identity byte was read)
IdentityReadAt(t) ==
  LET T == Transfers(t)
      S == {i \in 1 .. Len(T) :
              IsReadTransfer(T[i]) /\ T[i].ok /\ FrameRegister(T[i]) = 15}
  IN  IF S = {} THEN 0 ELSE CHOOSE i \in S : \A j \in S : i <= j

\* the identity byte the device answered with
IdentityByte == dev[15]

\* C3 as stated: verify_device succeeds exactly when the byte read from
\* register 0x0F is 0x33, any other byte gives device-mismatch, and in create
\* nothing follows the identity read after that failure.
C3_IdentityIffOriginal ==
  /\ Returned("verify_device") =>
       /\ (last.status = "ok") <=>
            (IdentityReadAt(last.trace) # 0 /\ IdentityByte = 51)
       /\ (IdentityReadAt(last.trace) # 0 /\ IdentityByte # 51)
            => last.status = "mismatch"
  /\ (Returned("create") /\ IdentityReadAt(last.trace) # 0 /\ IdentityByte # 51)
       => /\ last.status = "mismatch"
          /\ IdentityReadAt(last.trace) = Len(Transfers(last.trace))
          /\ ~controller

\* every call of the trace from the identity read on succeeded
ReleasedAfterIdentity(t) ==
  \A i \in 1 .. Len(t) :
    (\E j \in 1 .. i : IsTransfer(t[j]) /\ FrameRegister(t[j]) = 15) => t[i].ok

\* C3 (amended): verify_device succeeds exactly when the identity read
\* returned 0x33 and no call of the handler failed (on the chip-select bus
\* the release of the select line follows the read and may still fail); a
\* byte other than 0x33 always makes it fail, with device-mismatch unless the
\* release failed, and in create no transfer follows the identity read and
\* no controller is produced.
C3_IdentityIff ==
  /\ Returned("verify_device") =>
       /\ (last.status = "ok") <=>
            (IdentityReadAt(last.trace) # 0 /\ IdentityByte = 51
               /\ AllCallsOk(last.trace))
       /\ (IdentityReadAt(last.trace) # 0 /\ IdentityByte # 51)
            => /\ last.status # "ok"
               /\ AllCallsOk(last.trace) => last.status = "mismatch"
  /\ Returned("create") =>
       /\ last.status = "ok" =>
            (IdentityReadAt(last.trace) # 0 /\ IdentityByte = 51)
       /\ last.status = "mismatch" =>
            (IdentityReadAt(last.trace) # 0 /\ IdentityByte # 51)
       /\ (IdentityReadAt(last.trace) # 0 /\ IdentityByte # 51) =>
            /\ last.status # "ok"
            /\ ReleasedAfterIdentity(last.trace) => last.status = "mismatch"
            /\ IdentityReadAt(last.trace) = Len(Transfers(last.trace))
            /\ ~controller

\* create stopped at an identity byte other than 0x33
C3_Witness ==
  /\ Returned("create")
  /\ last.status = "mismatch"
  /\ IdentityByte # 51
  /\ IdentityReadAt(last.trace) = Len(Transfers(last.trace))

----------------------------------------------------------------------------
(* C4 *)

\* C4: create hands a controller to the caller exactly when it returned
\* success, and it returns success only when every initialization step ran
\* and succeeded (identity 0x33 read, 0x20 and 0x23 read and written); no
\* member operation is ever called without a controller.
C4_CreateAllOrNothing ==
  /\ Returned("create") =>
       /\ controller <=> (last.status = "ok")
       /\ last.status = "ok" =>
            /\ AllCallsOk(last.trace)
            /\ IdentityReadAt(last.trace) # 0 /\ IdentityByte = 51
            /\ \A r \in {32, 35} :
                 \E i, j \in 1 .. Len(last.trace) :
                   /\ i < j
                   /\ IsReadTransfer(last.trace[i])
                   /\ FrameRegister(last.trace[i]) = r
                   /\ IsWriteTransfer(last.trace[j])
                   /\ FrameRegister(last.trace[j]) = r
  /\ ~controller => last.op \in {"none", "create"}

\* create failed after the device had already been written: still no
\* controller
C4_Witness ==
  /\ Returned("create")
  /\ last.status = "transport"
  /\ dev # last.pre_dev
  /\ ~controller

----------------------------------------------------------------------------
(* C5 *)

\* every write transfer of the operation addresses register r and carries a
\* byte that agrees with the register's previous contents outside hi..lo
WritesOnlyField(r, hi, lo) ==
  \A i \in 1 .. Len(last.trace) :
    IsWriteTransfer(last.trace[i]) =>
      /\ FrameRegister(last.trace[i]) = r
      /\ Len(last.trace[i].out) = 2
      /\ Outside(last.trace[i].out[2], hi, lo) = Outside(last.pre_dev[r], hi, lo)

\* successful write transfers of the operation
WritesDone ==
  Cardinality({i \in 1 .. Len(last.trace) :
                 IsWriteTransfer(last.trace[i]) /\ last.trace[i].ok})

\* C5: a read-modify-write changes only its field: configure_data_rates
\* (and power_on / power_off) bits 7:4 of 0x20, configure_full_scale bits 5:4
\* of 0x23, configure_spi_mode bit 0 of 0x23; the other bits of the register
\* and all other registers keep their contents.
C5_OnlyTargetField ==
  /\ last.op \in {"configure_data_rates", "power_on", "power_off"} =>
       /\ WritesOnlyField(32, 7, 4)
       /\ Outside(dev[32], 7, 4) = Outside(last.pre_dev[32], 7, 4)
       /\ OthersKept(32)
  /\ Returned("configure_full_scale") =>
       /\ WritesOnlyField(35, 5, 4)
       /\ Outside(dev[35], 5, 4) = Outside(last.pre_dev[35], 5, 4)
       /\ OthersKept(35)
  /\ (Returned("create") /\ bus = "spi") =>
       /\ \A i \in 1 .. Len(last.trace) :
            (IsWriteTransfer(last.trace[i])
               /\ \A j \in 1 .. i - 1 : ~IsWriteTransfer(last.trace[j])) =>
              /\ FrameRegister(last.trace[i]) = 35
              /\ Outside(last.trace[i].out[2], 0, 0)
                   = Outside(last.pre_dev[35], 0, 0)
       /\ WritesDone <= 1 =>
            /\ Outside(dev[35], 0, 0) = Outside(last.pre_dev[35], 0, 0)
            /\ OthersKept(35)
  /\ Returned("create") =>
       /\ dev[32] % 16 = last.pre_dev[32] % 16
       /\ Outside(Outside(dev[35], 5, 4), 0, 0)
            = Outside(Outside(last.pre_dev[35], 5, 4), 0, 0)
       /\ bus = "i2c" => dev[35] % 2 = last.pre_dev[35] % 2
       /\ \A r \in RegAddrs \ {32, 35} : dev[r] = last.pre_dev[r]

\* a data rate was configured on a register whose low four bits were set
C5_Witness ==
  /\ Returned("configure_data_rates")
  /\ last.status = "ok"
  /\ last.pre_dev[32] % 16 # 0
  /\ dev[32] # last.pre_dev[32]
  /\ dev[32] \div 16 = last.arg

----------------------------------------------------------------------------
(* C6 *)

----------------------------------------------------------------------------
(* C7, C8, C9: the calibrated sample                                       *)

\* the signed 16-bit value the device presented for axis i (1 = x, 2 = y,
\* 3 = z), low byte first in the reply
RawValue(i) ==
  LET w == (last.raw[2 * i] * 256) + last.raw[(2 * i) - 1]
  IN  IF w >= 32768 THEN w - 65536 ELSE w

Axis(i) == IF i = 1 THEN last.acceleration.x
           ELSE IF i = 2 THEN last.acceleration.y
           ELSE last.acceleration.z

\* the fraction f equals n / d (same denominators are not multiplied out)
FractionIs(f, n, d) ==
  IF f.den = d THEN f.num = n ELSE f.num * d = n * f.den

\* C7: a read that directly follows a successful configure_full_scale(r)
\* scales with limit 2^(code(r)+1), whatever range was stored before.
C7_ReadUsesNewRange ==
  (Returned("read") /\ last.status = "ok" /\ last.cfg.range # -1) =>
    /\ last.limit = 2 ^ (last.cfg.range + 1)
    /\ \A i \in 1 .. 3 :
         FractionIs(Axis(i), (2 ^ (last.cfg.range + 1)) * ((2 * RawValue(i)) + 1),
                    65535)

\* a read right after the range was changed from another range
C7_Witness ==
  /\ Returned("read")
  /\ last.status = "ok"
  /\ last.cfg.range # -1
  /\ last.cfg.prior # last.cfg.range
  /\ RawValue(1) # 0

\* C8 as stated: every axis value is the increasing linear map of the raw
\* value onto [-L, +L], L = 2^(c+1): +L at 32767, -L at -32768, and 0 at 0.
C8_LinearMapOriginal ==
  (Returned("read") /\ last.status = "ok") =>
    \A i \in 1 .. 3 :
      LET L == 2 ^ (m_gscale + 1)
      IN  /\ RawValue(i) = 32767 => FractionIs(Axis(i), L, 1)
          /\ RawValue(i) = 0 - 32768 => FractionIs(Axis(i), 0 - L, 1)
          /\ RawValue(i) = 0 => FractionIs(Axis(i), 0, 1)

\* C8 (amended): every axis value is L * (2v + 1) / 65535, the increasing
\* linear map taking -32768 to -L and 32767 to +L, L = 2^(c+1); it is +L at
\* v = 32767, -L at v = -32768, and L / 65535 (not 0) at v = 0.
C8_LinearMap ==
  (Returned("read") /\ last.status = "ok") =>
    \A i \in 1 .. 3 :
      LET L == 2 ^ (m_gscale + 1)
      IN  /\ m_gscale \in 0 .. 3
          /\ FractionIs(Axis(i), L * ((2 * RawValue(i)) + 1), 65535)
          /\ RawValue(i) = 32767 => FractionIs(Axis(i), L, 1)
          /\ RawValue(i) = 0 - 32768 => FractionIs(Axis(i), 0 - L, 1)
          /\ RawValue(i) = 0 => FractionIs(Axis(i), L, 65535)

\* a read of x = 0, y = 32767, z = -32768 at the widest range
C8_Witness ==
  /\ Returned("read")
  /\ last.status = "ok"
  /\ m_gscale = 3
  /\ RawValue(1) = 0
  /\ RawValue(2) = 32767
  /\ RawValue(3) = 0 - 32768
  /\ last.acceleration.x.num # 0

----------------------------------------------------------------------------
(* C10 *)

\* register each member operation addresses
RegisterOf(op) ==
  IF op = "verify_device" THEN 15
  ELSE IF op \in {"power_on", "power_off", "configure_data_rates"} THEN 32
  ELSE IF op = "configure_full_scale" THEN 35
  ELSE 40

\* C10: on the chip-select bus every first frame byte has the register
\* address in bits 5:0 and bit 7 set exactly for a read; the axis read is one
\* transfer of frame byte 0xE8 (0x28, read flag, auto-increment flag) that
\* asks for 6 reply bytes.
C10_SpiFraming ==
  bus = "spi" =>
    LET T == Transfers(last.trace)
    IN  /\ \A i \in 1 .. Len(T) :
             /\ T[i].kind \in {"spi_wtr", "spi_w"}
             /\ T[i].out[1] \in 0 .. 255
             /\ T[i].out[1] % 64 \in {15, 32, 35, 40}
             /\ last.op \in MemberOps => T[i].out[1] % 64 = RegisterOf(last.op)
             /\ (T[i].out[1] \div 128 = 1) <=> IsReadTransfer(T[i])
             /\ IsReadTransfer(T[i]) <=> T[i].n > 0
        /\ Returned("read") =>
             /\ Len(T) <= 1
             /\ \A i \in 1 .. Len(T) :
                  /\ T[i].out = <<232>>
                  /\ T[i].n = 6
                  /\ T[i].kind = "spi_wtr"
             /\ last.status = "ok" => Len(T) = 1

\* an axis read on the chip-select bus that returned a sample
C10_Witness ==
  /\ bus = "spi"
  /\ Returned("read")
  /\ last.status = "ok"
  /\ Len(Transfers(last.trace)) = 1
  /\ last.words[1] # 0

----------------------------------------------------------------------------
(* C11 *)

\* C11 as stated: the register byte of every addressed-bus transfer is the
\* plain register address 0x0F, 0x20, 0x23 or 0x28, no flag bit added.
C11_I2cPlainRegisterOriginal ==
  bus = "i2c" =>
    \A i \in 1 .. Len(last.trace) :
      /\ last.trace[i].out[1] \in {15, 32, 35, 40}
      /\ last.op \in MemberOps => last.trace[i].out[1] = RegisterOf(last.op)

\* C11 (amended): the identity read and the control-register reads and
\* writes send the plain register address (0x0F, 0x20, 0x23); the axis burst
\* read sends 0xA8, the address 0x28 with bit 7 (the device's auto-increment
\* flag on this bus) set.
C11_I2cRegisterByte ==
  bus = "i2c" =>
    \A i \in 1 .. Len(last.trace) :
      /\ last.trace[i].kind \in {"i2c_wtr", "i2c_w"}
      /\ last.trace[i].out[1] \in {15, 32, 35, 168}
      /\ Returned("read") =>
           /\ last.trace[i].out = <<168>>
           /\ last.trace[i].out[1] = 40 + 128
           /\ last.trace[i].n = 6
      /\ last.op \in MemberOps \ {"read"} =>
           last.trace[i].out[1] = RegisterOf(last.op)
      /\ Returned("create") => last.trace[i].out[1] \in {15, 32, 35}
      /\ IsWriteTransfer(last.trace[i]) => Len(last.trace[i].out) = 2
      /\ IsReadTransfer(last.trace[i]) => Len(last.trace[i].out) = 1

\* an axis read on the addressed bus that returned the six bytes the device
\* held at 0x28..0x2D
C11_Witness ==
  /\ bus = "i2c"
  /\ Returned("read")
  /\ last.status = "ok"
  /\ Len(last.trace) = 1
  /\ last.trace[1].out[1] = 168
  /\ last.words[2] = (last.raw[4] * 256) + last.raw[3]
  /\ last.words[2] # 0

----------------------------------------------------------------------------
(* C12 *)

\* C12: read, verify_device, power_on, power_off and configure_data_rates
\* leave the stored range as it was, whether they succeed or fail, and so
\* does configure_spi_mode with any of its calls failing; only
\* configure_full_scale (directly or from create) changes it.
C12_RangeOnlyByFullScale ==
  /\ last.op \in MemberOps \ {"configure_full_scale"} =>
       m_gscale = last.pre_gscale
  /\ (m_gscale # last.pre_gscale /\ ~Idle) =>
       last.op \in {"configure_full_scale", "create"}
  /\ (Idle /\ bus = "spi" /\ controller) =>
       \A f \in FailChoices(6), p_spi_mode \in {four_wire, three_wire} :
         spi_configure_spi_mode(Ctx(f, NoRaw), p_spi_mode).m_gscale = m_gscale

\* a data rate was configured while a range other than the default was
\* stored
C12_Witness ==
  /\ Returned("configure_data_rates")
  /\ last.status = "ok"
  /\ dev[32] # last.pre_dev[32]
  /\ m_gscale = 3
  /\ last.pre_gscale = 3

----------------------------------------------------------------------------
(* C13 *)

\* a call in which no transport or chip-select call fails
NoFailure == [at |-> 0, took |-> FALSE]

\* the configuration operation op(arg) called once more in the current state
Repeat(op, arg) ==
  LET c == Ctx(NoFailure, NoRaw)
  IN  IF op = "power_on"
      THEN (IF bus = "spi" THEN spi_power_on(c) ELSE i2c_power_on(c))
      ELSE IF op = "power_off"
      THEN (IF bus = "spi" THEN spi_power_off(c) ELSE i2c_power_off(c))
      ELSE IF op = "configure_data_rates"
      THEN (IF bus = "spi" THEN spi_configure_data_rates(c, arg)
            ELSE i2c_configure_data_rates(c, arg))
      ELSE (IF bus = "spi" THEN spi_configure_full_scale(c, arg)
            ELSE i2c_configure_full_scale(c, arg))

\* C13: configure_data_rates(m), configure_full_scale(r), power_on and
\* power_off are idempotent: when the call has succeeded, the same call made
\* again and succeeding leaves every device register and the stored range
\* as the first call left them.
C13_Idempotent ==
  /\ (last.op \in ConfigOps /\ last.status = "ok") =>
       LET c == Repeat(last.op, last.arg)
       IN  /\ c.status = "ok"
           /\ c.dev = dev
           /\ c.m_gscale = m_gscale
  /\ (/\ Returned("configure_full_scale")
      /\ last.status = "ok"
      /\ last.cfg.range = last.arg) =>
       /\ dev = last.pre_dev
       /\ m_gscale = last.pre_gscale

\* configure_full_scale(r) succeeded twice in a row, the first call having
\* changed the range
C13_Witness ==
  /\ Returned("configure_full_scale")
  /\ last.status = "ok"
  /\ last.cfg.range = last.arg
  /\ last.cfg.prior # last.arg
  /\ Field(dev[35], 5, 4) = last.arg
  /\ Len(Transfers(last.trace)) = 2

----------------------------------------------------------------------------
(* C14 *)

\* the last successful write of the operation to register r, 0 if none
LastWriteTo(r) ==
  LET W == {i \in 1 .. Len(last.trace) :
              /\ IsWriteTransfer(last.trace[i])
              /\ last.trace[i].ok
              /\ FrameRegister(last.trace[i]) = r}
  IN  IF W = {} THEN 0 ELSE CHOOSE i \in W : \A j \in W : j <= i

\* C14: an operation in which a bus or chip-select call fails returns that
\* failure at once: the failed call is the last call it makes and the only
\* one that failed (no further transaction, no retry), and the registers
\* hold what the steps before the failure wrote (no write-back, no restore);
\* a create that fails in the full-scale step leaves the data-rate field at
\* mode 7.
C14_FirstFailureNoRollback ==
  ~Idle =>
    /\ last.status = "transport" =>
         /\ Len(last.trace) >= 1
         /\ ~last.trace[Len(last.trace)].ok
         /\ \A i \in 1 .. (Len(last.trace) - 1) : last.trace[i].ok
    /\ last.status # "transport" => AllCallsOk(last.trace)
    /\ \A r \in RegAddrs :
         dev[r] = IF LastWriteTo(r) = 0 THEN last.pre_dev[r]
                  ELSE last.trace[LastWriteTo(r)].out[2]
    /\ (/\ Returned("create")
        /\ last.status # "ok"
        /\ LastWriteTo(32) # 0) =>
         Field(dev[32], 7, 4) = 7

\* a create whose full-scale step failed after power-on had written 0x20
C14_Witness ==
  /\ Returned("create")
  /\ last.status = "transport"
  /\ LastWriteTo(32) # 0
  /\ LastWriteTo(35) < LastWriteTo(32)
  /\ Field(dev[32], 7, 4) = 7
  /\ Field(last.pre_dev[32], 7, 4) # 7
  /\ ~controller

----------------------------------------------------------------------------
(* C15 *)

----------------------------------------------------------------------------
(* C16 *)

\* successful writes of the operation to register r
WritesTo(r) ==
  {i \in 1 .. Len(last.trace) :
     /\ IsWriteTransfer(last.trace[i])
     /\ last.trace[i].ok
     /\ FrameRegister(last.trace[i]) = r}

\* C16: on the chip-select bus create sets the protocol mode once, to
\* four-wire: its first write to 0x23 is the byte read with bit 0 cleared,
\* after a successful create bit 0 of 0x23 is 0 whatever it was, and no
\* operation on the controller writes that bit as 1 afterwards.
C16_FourWireOnce ==
  bus = "spi" =>
    /\ controller => dev[35] % 2 = 0
    /\ (Returned("create") /\ last.status = "ok") =>
         /\ Cardinality(WritesTo(35)) = 2
         /\ \E i \in WritesTo(35) :
              /\ \A j \in WritesTo(35) : i <= j
              /\ last.trace[i].out[2] =
                   last.pre_dev[35] - (last.pre_dev[35] % 2)
    /\ last.op \in MemberOps =>
         /\ \A i \in WritesTo(35) : last.trace[i].out[2] % 2 = 0
         /\ Cardinality(WritesTo(35)) <= 1
         /\ last.pre_dev[35] % 2 = 0

\* a successful create on a device whose register 0x23 had bit 0 set
C16_Witness ==
  /\ bus = "spi"
  /\ Returned("create")
  /\ last.status = "ok"
  /\ controller
  /\ last.pre_dev[35] % 2 = 1
  /\ dev[35] % 2 = 0

----------------------------------------------------------------------------
(* C17 *)

\* the read of the other driver on the same reply bytes and stored range
OtherDriverRead ==
  IF bus = "spi" THEN i2c_driver_read(Ctx(NoFailure, last.raw))
  ELSE spi_driver_read(Ctx(NoFailure, last.raw))

\* C17: on the same six reply bytes and the same stored range, the read of
\* the addressed-bus driver and the read of the chip-select driver return
\* the same sample (x, y, z).
C17_SameSample ==
  (Returned("read") /\ last.status = "ok") =>
    /\ OtherDriverRead.status = "ok"
    /\ OtherDriverRead.acceleration = last.acceleration
    /\ OtherDriverRead.words = last.words
    /\ OtherDriverRead.limit = last.limit

\* a read of three different axis values under a range other than the
\* default
C17_Witness ==
  /\ Returned("read")
  /\ last.status = "ok"
  /\ m_gscale = 2
  /\ last.raw[1] # last.raw[2]
  /\ last.acceleration.x # last.acceleration.y
  /\ last.acceleration.y # last.acceleration.z
  /\ last.acceleration.x.num # 0

----------------------------------------------------------------------------
(* C18 *)

\* number of calls (transfers and chip-select level changes) an operation
\* with n transfers makes at most
MaxCalls(n) == IF bus = "spi" THEN 3 * n ELSE n

\* C18: every operation returns after a bounded number of calls, without
\* loop or retry: a configuration operation makes at most two bus transfers
\* (exactly two when it succeeds), a read or an identity check at most one,
\* each transfer at most once, and the operation has returned with success
\* or with a failure once the calls it made have returned.
C18_BoundedTransactions ==
  ~Idle =>
    /\ last.status \in {"ok", "transport", "mismatch"}
    /\ last.op \in ConfigOps =>
         /\ Len(Transfers(last.trace)) <= 2
         /\ Len(last.trace) <= MaxCalls(2)
         /\ last.status = "ok" =>
              /\ Len(Transfers(last.trace)) = 2
              /\ IsReadTransfer(Transfers(last.trace)[1])
              /\ IsWriteTransfer(Transfers(last.trace)[2])
    /\ last.op \in {"read", "verify_device"} =>
         /\ Len(Transfers(last.trace)) <= 1
         /\ Len(last.trace) <= MaxCalls(1)
         /\ last.status = "ok" => Len(Transfers(last.trace)) = 1
    /\ Returned("create") =>
         /\ Len(Transfers(last.trace)) <= (IF bus = "spi" THEN 7 ELSE 5)
         /\ Len(last.trace) <= MaxCalls(IF bus = "spi" THEN 7 ELSE 5)

\* a power_off on the addressed bus that succeeded with its two transfers
C18_Witness ==
  /\ bus = "i2c"
  /\ Returned("power_off")
  /\ last.status = "ok"
  /\ Len(last.trace) = 2
  /\ Field(last.pre_dev[32], 7, 4) # 0
  /\ Field(dev[32], 7, 4) = 0

----------------------------------------------------------------------------
(* C19 *)

\* C19: the data-rate mode power_on sets is mode_8 (0b1000), the mode the
\* header documents as the default set by power_on.
C19_PowerOnMode8 ==
  /\ (Returned("power_on") /\ last.status = "ok") =>
       Field(dev[32], 7, 4) = 8
  /\ (Returned("create") /\ last.status = "ok") =>
       Field(dev[32], 7, 4) = 8

----------------------------------------------------------------------------
(* C20 *)

\* the stored range is a range code and is the range the device uses
InSync == m_gscale \in 0 .. 3 /\ m_gscale = Field(dev[35], 5, 4)

\* C20: a successful create leaves the stored range a code in {0,1,2,3}
\* equal to bits 5:4 of register 0x23, and every operation on the
\* controller that succeeds keeps it so; hence after a successful create
\* and any sequence of succeeding operations the two agree.
C20_RangeInSync ==
  [][(/\ controller'
      /\ last'.status = "ok"
      /\ (last'.op = "create" \/ InSync)) => InSync']_vars

\* a succeeding configure_full_scale moved a controller whose stored range
\* agreed with the device to another range
C20_Witness ==
  /\ controller
  /\ Returned("configure_full_scale")
  /\ last.status = "ok"
  /\ last.pre_gscale = Field(last.pre_dev[35], 5, 4)
  /\ last.pre_gscale # m_gscale
  /\ InSync
  /\ m_gscale = 3

----------------------------------------------------------------------------
(* C21 *)

\* call i of the operation is a change of the chip-select line to p_level
IsLevelChange(i, p_level) ==
  /\ i \in 1 .. Len(last.trace)
  /\ last.trace[i].kind = "cs"
  /\ last.trace[i].level = p_level

\* C21: on the chip-select bus every transfer is issued with the line low
\* and has a select window of its own: the call before it drives the line
\* low and succeeds, the call after it drives the line high; a
\* read-modify-write that succeeds has two windows, and in an operation
\* that succeeds the level changes alternate low, high, low, high, ...
C21_SelectWindows ==
  (bus = "spi" /\ ~Idle) =>
    /\ \A i \in 1 .. Len(last.trace) :
         IsTransfer(last.trace[i]) =>
           /\ last.trace[i].level = FALSE
           /\ IsLevelChange(i - 1, FALSE)
           /\ last.trace[i - 1].ok
           /\ IsLevelChange(i + 1, TRUE)
    /\ last.status = "ok" =>
         \A i \in 1 .. Len(last.trace) :
           /\ i % 3 = 1 => IsLevelChange(i, FALSE)
           /\ i % 3 = 2 => IsTransfer(last.trace[i])
           /\ i % 3 = 0 => IsLevelChange(i, TRUE)
    /\ (last.op \in ConfigOps /\ last.status = "ok") =>
         /\ Len(last.trace) = 6
         /\ IsReadTransfer(last.trace[2])
         /\ IsWriteTransfer(last.trace[5])

----------------------------------------------------------------------------
(* C22 *)

\* registers create accesses, in order, and which accesses are writes
CreateOrder ==
  IF bus = "spi" THEN <<35, 35, 15, 32, 32, 35, 35>>
  ELSE <<15, 32, 32, 35, 35>>
CreateWrites == IF bus = "spi" THEN {2, 5, 7} ELSE {3, 5}

\* C22: create on the chip-select bus accesses, in this order, register 0x23
\* (read, write of bit 0), 0x0F (identity read), 0x20 (read, write), 0x23
\* (read, write of bits 5:4); when the identity byte is not 0x33 it stops
\* after the identity read, with 0x23 written once and 0x20 never, whereas
\* create on the addressed bus has then written no register.
C22_CreateSequence ==
  Returned("create") =>
    LET T == Transfers(last.trace)
    IN  /\ Len(T) <= Len(CreateOrder)
        /\ \A i \in 1 .. Len(T) :
             /\ FrameRegister(T[i]) = CreateOrder[i]
             /\ IsWriteTransfer(T[i]) <=> i \in CreateWrites
             /\ IsReadTransfer(T[i]) <=> i \notin CreateWrites
        /\ last.status = "ok" => Len(T) = Len(CreateOrder)
        /\ (bus = "spi" /\ Len(T) >= 2) =>
             T[2].out[2] = last.pre_dev[35] - (last.pre_dev[35] % 2)
        /\ (bus = "spi" /\ Len(T) = 7) =>
             /\ Field(T[7].out[2], 5, 4) = last.arg
             /\ Outside(T[7].out[2], 5, 4) = Outside(T[2].out[2], 5, 4)
        /\ (IdentityReadAt(last.trace) # 0 /\ last.pre_dev[15] # 51) =>
             /\ last.status # "ok"
             /\ bus = "spi" =>
                  /\ Len(T) = 3
                  /\ Cardinality(WritesTo(35)) = 1
                  /\ WritesTo(32) = {}
                  /\ dev[32] = last.pre_dev[32]
                  /\ dev[35] = last.pre_dev[35] - (last.pre_dev[35] % 2)
             /\ bus = "i2c" =>
                  /\ Len(T) = 1
                  /\ \A r \in RegAddrs : WritesTo(r) = {}
                  /\ dev = last.pre_dev

\* create on the chip-select bus met another device: register 0x23 lost its
\* bit 0 before the identity was read, register 0x20 was left alone
C22_Witness ==
  /\ bus = "spi"
  /\ Returned("create")
  /\ last.status = "mismatch"
  /\ last.pre_dev[15] # 51
  /\ last.pre_dev[35] % 2 = 1
  /\ dev[35] = last.pre_dev[35] - 1
  /\ dev[32] = last.pre_dev[32]
  /\ Len(Transfers(last.trace)) = 3
  /\ ~controller

====
